---- MODULE Spec2Model ----
(***************************************************************************)
(* smtp_discord_bridge: the dispatch path from SMTP sessions to the        *)
(* Discord webhook, in its two implementations:                            *)
(*   "lock"    src/lib.rs   Arc<Mutex<WebhookSender<T>>>, the session      *)
(*                          itself calls webhook.execute under the lock;   *)
(*   "channel" src/main.rs  mpsc channel feeding one webhook thread.       *)
(* The variable design says which of the two programs is running.          *)
(***************************************************************************)
EXTENDS Integers, Sequences, FiniteSets, TLC

\* ---- bounds -------------------------------------------------------------
NumSessions == 2
MaxMails == 3
MaxBody == 2
MaxShutdowns == 1
MaxSegments == 5
MaxChunks == 3
MaxSessionMails == 2
MaxEnvelopeMails == 2
MaxFairMails == 2

Sessions == 1..NumSessions
\* 'H', and the lead byte of a two-byte sequence, malformed without its
\* continuation byte
Bytes == {72, 195}
Designs == {"lock", "channel"}

VARIABLES
    design,      \* which program runs: lib.rs ("lock") or main.rs ("channel")
    pc,          \* per session: position of the session's code
    nmail,       \* per session: number of envelopes the session has opened
                 \* (MaxMails bounds their sum)
    envelope,    \* per session: envelope of the current DiscordMailSink
    body,        \* per session: body buffer of the current DiscordMailSink
    outcome,     \* per mail id: the QueueResult returned by queue
    lockHolder,  \* lib.rs: session holding the Mutex guard, 0 when free
    poisoned,    \* lib.rs: the Mutex poison flag
    sent,        \* main.rs: every command accepted by the channel, in order
    rcvd,        \* main.rs: number of commands the receiver has taken
    worker,      \* main.rs: position of the webhook thread
    nshutdown,   \* main.rs: number of Shutdown commands issued
    calls,       \* webhook.execute invocations, in invocation order
    config,      \* the [discord] section of the configuration file
    auth,        \* result of DiscordConfig::get_auth, Unresolved before the call
    chunks,      \* per session: the items given to start_send of the current sink
    capacity,    \* per session: capacity of the body buffer of the current sink
    sendResult,  \* per session: what the last start_send of the current sink returned
    acceptResult, \* the last request given to accept, and what accept returned
    mails        \* per mail id: the envelope mail was called with and the bytes
                 \* start_send took for it since (history, read by no action)

vars == <<design, pc, nmail, envelope, body, outcome, lockHolder, poisoned,
          sent, rcvd, worker, nshutdown, calls, config, auth, chunks, capacity,
          sendResult, acceptResult, mails>>

\* ---- data ---------------------------------------------------------------
MailIds == Sessions \X (1..MaxMails)
NoResult == [kind |-> "None"]
Failed == [kind |-> "Failed"]
QueuedWithId(id) == [kind |-> "QueuedWithId", id |-> id]

\* String::from_utf8 accepts exactly the well-formed UTF-8 byte sequences
RECURSIVE Utf8From(_, _)
Utf8From(b, i) ==
    IF i > Len(b) THEN TRUE
    ELSE LET x == b[i]
             n == Len(b)
             c(j, lo, hi) == j <= n /\ b[j] >= lo /\ b[j] <= hi
         IN  IF x < 128 THEN Utf8From(b, i + 1)
             ELSE IF x >= 194 /\ x <= 223
                  THEN c(i + 1, 128, 191) /\ Utf8From(b, i + 2)
             ELSE IF x = 224
                  THEN c(i + 1, 160, 191) /\ c(i + 2, 128, 191) /\ Utf8From(b, i + 3)
             ELSE IF x = 237
                  THEN c(i + 1, 128, 159) /\ c(i + 2, 128, 191) /\ Utf8From(b, i + 3)
             ELSE IF x >= 225 /\ x <= 239
                  THEN c(i + 1, 128, 191) /\ c(i + 2, 128, 191) /\ Utf8From(b, i + 3)
             ELSE IF x = 240
                  THEN c(i + 1, 144, 191) /\ c(i + 2, 128, 191) /\ c(i + 3, 128, 191)
                       /\ Utf8From(b, i + 4)
             ELSE IF x >= 241 /\ x <= 243
                  THEN c(i + 1, 128, 191) /\ c(i + 2, 128, 191) /\ c(i + 3, 128, 191)
                       /\ Utf8From(b, i + 4)
             ELSE IF x = 244
                  THEN c(i + 1, 128, 143) /\ c(i + 2, 128, 191) /\ c(i + 3, 128, 191)
                       /\ Utf8From(b, i + 4)
             ELSE FALSE

from_utf8_lossy(b) == TRUE
from_utf8(b) == Utf8From(b, 1)

\* ---- config.rs, discord.rs: webhook credentials ---------------------------
None == [some |-> FALSE]
Some(v) == [some |-> TRUE, val |-> v]
Ok(v) == [kind |-> "Ok", val |-> v]
Err(e) == [kind |-> "Err", err |-> e]
Unresolved == [kind |-> "Unresolved"]

\* DiscordWebhookAuth::new
DiscordWebhookAuth(id, token) == [id |-> id, token |-> token]

\* texts are sequences of characters
Api == <<"a", "p", "i">>
Webhooks == <<"w", "e", "b", "h", "o", "o", "k", "s">>
DigitValue ==
    ("0" :> 0) @@ ("1" :> 1) @@ ("2" :> 2) @@ ("3" :> 3) @@ ("4" :> 4) @@
    ("5" :> 5) @@ ("6" :> 6) @@ ("7" :> 7) @@ ("8" :> 8) @@ ("9" :> 9)

\* str::parse::<u64>: an optional '+', then one or more decimal digits (the
\* values of the model stay far below 2^64, where parse would overflow)
RECURSIVE DigitsValue(_, _)
DigitsValue(t, acc) ==
    IF t = <<>> THEN acc ELSE DigitsValue(Tail(t), 10 * acc + DigitValue[Head(t)])

ParseU64(t) ==
    LET digits == IF t # <<>> /\ Head(t) = "+" THEN Tail(t) ELSE t
    IN  IF digits = <<>> THEN Err("Empty")
        ELSE IF \E i \in DOMAIN digits : digits[i] \notin DOMAIN DigitValue
             THEN Err("InvalidDigit")
        ELSE Ok(DigitsValue(digits, 0))

\* Url::parse on the text of a URL: a text without scheme is rejected, a
\* text "scheme:rest" without '/' after the colon is a cannot-be-a-base URL,
\* and the empty path of a URL with a host becomes "/"
UrlParse(u) ==
    IF u.form = "relative" THEN Err("RelativeUrlWithoutBase")
    ELSE IF u.form = "opaque"
         THEN Ok([scheme |-> u.scheme, cannot_be_a_base |-> TRUE, path |-> u.path])
    ELSE Ok([scheme |-> u.scheme, host |-> u.host, cannot_be_a_base |-> FALSE,
             path |-> IF u.path = <<>> THEN <<"/">> ELSE u.path])

\* str::split('/')
RECURSIVE Split(_, _)
Split(t, cur) ==
    IF t = <<>> THEN <<cur>>
    ELSE IF Head(t) = "/" THEN <<cur>> \o Split(Tail(t), <<>>)
    ELSE Split(Tail(t), Append(cur, Head(t)))

\* Url::path_segments: None for a cannot-be-a-base URL, else the path after
\* its leading '/' split at every '/'
path_segments(url) ==
    IF url.cannot_be_a_base THEN None ELSE Some(Split(Tail(url.path), <<>>))

\* DiscordWebhookAuth::from_url; Iterator::next past the end gives None
from_url_token_first(u) ==
    LET parsed == UrlParse(u)
        segs == path_segments(parsed.val).val
        seg(i) == IF i <= Len(segs) THEN Some(segs[i]) ELSE None
    IN  IF parsed.kind = "Err" THEN Err("UrlParseError")
        ELSE IF ~path_segments(parsed.val).some THEN Err("UrlMissingPath")
        ELSE IF seg(1) # Some(Api) THEN Err("UrlPathMissingApi")
        ELSE IF seg(2) # Some(Webhooks) THEN Err("UrlPathMissingWebhooks")
        ELSE IF ~seg(3).some THEN Err("UrlPathMissingId")
        ELSE IF ~seg(4).some THEN Err("UrlPathMissingToken")
        ELSE IF ParseU64(seg(3).val).kind = "Err" THEN Err("IdParseError")
        ELSE Ok(DiscordWebhookAuth(ParseU64(seg(3).val).val, seg(4).val))

from_url(u) ==
    LET parsed == UrlParse(u)
        segs == path_segments(parsed.val).val
        seg(i) == IF i <= Len(segs) THEN Some(segs[i]) ELSE None
    IN  IF parsed.kind = "Err" THEN Err("UrlParseError")
        ELSE IF ~path_segments(parsed.val).some THEN Err("UrlMissingPath")
        ELSE IF seg(1) # Some(Api) THEN Err("UrlPathMissingApi")
        ELSE IF seg(2) # Some(Webhooks) THEN Err("UrlPathMissingWebhooks")
        ELSE IF ~seg(3).some THEN Err("UrlPathMissingId")
        ELSE IF ParseU64(seg(3).val).kind = "Err" THEN Err("IdParseError")
        ELSE IF ~seg(4).some THEN Err("UrlPathMissingToken")
        ELSE Ok(DiscordWebhookAuth(ParseU64(seg(3).val).val, seg(4).val))

\* map_err(UrlError)
UrlError(r) == IF r.kind = "Err" THEN Err(<<"UrlError", r.err>>) ELSE r

\* DiscordConfig::get_auth
get_auth_url_wins(c) ==
    IF c.webhook_url.some THEN UrlError(from_url(c.webhook_url.val))
    ELSE IF c.webhook_id.some /\ c.webhook_token.some
         THEN Ok(DiscordWebhookAuth(c.webhook_id.val, c.webhook_token.val))
    ELSE IF c.webhook_id.some THEN Err("ConfigMissingWebhookToken")
    ELSE IF c.webhook_token.some THEN Err("ConfigMissingWebhookId")
    ELSE Err("NeitherUrlNorPartsSpecified")

get_auth(c) ==
    LET url == c.webhook_url
        id == c.webhook_id
        token == c.webhook_token
    IN  IF ~url.some /\ ~id.some /\ ~token.some
        THEN Err("NeitherUrlNorPartsSpecified")
        ELSE IF ~url.some /\ ~id.some /\ token.some
        THEN Err("ConfigMissingWebhookId")
        ELSE IF ~url.some /\ id.some /\ ~token.some
        THEN Err("ConfigMissingWebhookToken")
        ELSE IF ~url.some /\ id.some /\ token.some
        THEN Ok(DiscordWebhookAuth(id.val, token.val))
        ELSE IF url.some /\ ~id.some /\ ~token.some
        THEN UrlError(from_url(url.val))
        ELSE Err("InvalidParamCombination")

\* ---- configurations the checks draw from ---------------------------------
SegmentSamples == {Api, Webhooks, <<"1", "2">>, <<"a", "b">>, <<>>}

RECURSIVE JoinPath(_)
JoinPath(segs) ==
    IF segs = <<>> THEN <<>> ELSE <<"/">> \o Head(segs) \o JoinPath(Tail(segs))

PathSamples ==
    {JoinPath(segs) : segs \in UNION {[1..n -> SegmentSamples] : n \in 0..MaxSegments}}

UrlSamples ==
    {[form |-> "relative", path |-> Api], [form |-> "opaque", scheme |-> "mailto", path |-> Api]}
    \cup {[form |-> "hierarchical", scheme |-> sc, host |-> h, path |-> p] :
            sc \in {"https", "http"}, h \in {"discord.com", "example.org"},
            p \in PathSamples}

ConfigSamples ==
    [webhook_url : {None} \cup {Some(u) : u \in UrlSamples},
     webhook_id : {None, Some(7)},
     webhook_token : {None, Some(<<>>), Some(<<"t">>)}]

\* the configuration the dispatch runs are started with
RunningConfig ==
    [webhook_url |-> None, webhook_id |-> Some(7), webhook_token |-> Some(<<"t">>)]

\* ---- the envelope of a mail ----------------------------------------------
\* samotop's SmtpMail: the command that named the sender, and its path
SmtpMail(cmd, path) == [cmd |-> cmd, path |-> path]

\* Envelope: id, mail: Option<SmtpMail>, rcpts: Vec<SmtpPath>
Envelope(id, mail, rcpts) == [id |-> id, mail |-> mail, rcpts |-> rcpts]
NoEnvelope == Envelope(<<0, 0>>, None, <<>>)

\* match envelope.mail.unwrap() { Mail(p) => p, Send(p) => p, Saml(p) => p, Soml(p) => p }
SenderPath(mail) == mail.val.path

\* SmtpPath::to_string: the address between angle brackets, "<>" for the
\* null path
to_string(path) == <<"<">> \o path \o <<">">>

\* self.recipients.iter().map(SmtpPath::to_string).collect()
RecipientStrings(rcpts) == [k \in DOMAIN rcpts |-> to_string(rcpts[k])]

\* [String]::join("\n")
RECURSIVE join(_, _)
join(strs, sep) ==
    IF strs = <<>> THEN <<>>
    ELSE IF Len(strs) = 1 THEN Head(strs)
    ELSE Head(strs) \o sep \o join(Tail(strs), sep)

\* Embed::fake: the fields From, To and Body of the embed passed to
\* webhook.execute
EmbedFake_first_recipient(from, recipients, b) ==
    [from |-> from, to |-> Head(recipients), body |-> b]
EmbedFake(from, recipients, b) ==
    [from |-> from, to |-> join(recipients, <<"\n">>), body |-> b]

\* the envelopes the dispatch runs open their mails with
Alice == <<"a", "@", "x">>
Bob == <<"b", "@", "y">>
FromAlice == [mail |-> Some(SmtpMail("Mail", Alice)), rcpts |-> <<Bob>>]
FromBob == [mail |-> Some(SmtpMail("Mail", Bob)), rcpts |-> <<Alice, Bob>>]
RunningEnvelope(s) == IF s = 1 THEN FromAlice ELSE FromBob

\* ---- initial state ------------------------------------------------------
NoMail == [mail |-> None, rcpts |-> <<>>, given |-> <<>>]
NoAccept == [request |-> None, result |-> None]

\* the mailer as constructed by DiscordMailer::new, no session started
MailerInit ==
    /\ pc = [s \in Sessions |-> "idle"]
    /\ nmail = [s \in Sessions |-> 0]
    /\ envelope = [s \in Sessions |-> NoEnvelope]
    /\ body = [s \in Sessions |-> <<>>]
    /\ outcome = [m \in MailIds |-> NoResult]
    /\ lockHolder = 0
    /\ poisoned = FALSE
    /\ sent = <<>>
    /\ rcvd = 0
    /\ worker = "recv"
    /\ nshutdown = 0
    /\ calls = <<>>
    /\ chunks = [s \in Sessions |-> <<>>]
    /\ capacity = [s \in Sessions |-> 0]
    /\ sendResult = [s \in Sessions |-> "None"]
    /\ acceptResult = NoAccept
    /\ mails = [m \in MailIds |-> NoMail]

Init ==
    /\ design \in Designs
    /\ config = RunningConfig
    /\ auth = get_auth(config)
    /\ MailerInit

lockVars == <<lockHolder, poisoned>>
bufVars == <<chunks, capacity, sendResult>>
chanVars == <<sent, rcvd, worker, nshutdown>>

RECURSIVE Opened(_)
Opened(S) ==
    IF S = {} THEN 0
    ELSE LET s == CHOOSE x \in S : TRUE IN nmail[s] + Opened(S \ {s})

\* ---- session side, common to both programs ------------------------------
\* DiscordMailSink::new: body: Vec::new(); queue(self) consumes the sink
NewSink(s) ==
    /\ chunks' = [chunks EXCEPT ![s] = <<>>]
    /\ capacity' = [capacity EXCEPT ![s] = 0]
    /\ sendResult' = [sendResult EXCEPT ![s] = "None"]

\* Vec::extend_from_slice on the body of the sink of session s
extend_from_slice_prepend(b, s, item) == [b EXCEPT ![s] = item \o @]
extend_from_slice_shared(b, s, item) == [t \in DOMAIN b |-> b[t] \o item]
extend_from_slice(b, s, item) == [b EXCEPT ![s] = @ \o item]

\* Vec::reserve: the capacity grows by doubling when the item does not fit
reserve(cap, len, additional) ==
    IF cap - len >= additional THEN cap
    ELSE IF 2 * cap > len + additional THEN 2 * cap ELSE len + additional

\* start_send ends in Ok(AsyncSink::Ready)
start_send_result_backpressure(s) ==
    IF lockHolder \notin {0, s} \/ worker = "execute" THEN "NotReady" ELSE "Ready"
start_send_result(s) == "Ready"

\* MailQueue::mail: a new sink for the envelope, with an empty body; in
\* main.rs envelope.mail.unwrap() panics for an envelope without sender
Mail(s, env) ==
    /\ pc[s] = "idle"
    /\ Opened(Sessions) < MaxMails
    /\ IF design = "channel" /\ ~env.mail.some
       THEN /\ pc' = [pc EXCEPT ![s] = "panicked"]
            /\ UNCHANGED <<nmail, envelope, body, bufVars, mails>>
       ELSE /\ nmail' = [nmail EXCEPT ![s] = @ + 1]
            /\ envelope' = [envelope EXCEPT
                               ![s] = Envelope(<<s, nmail[s] + 1>>, env.mail, env.rcpts)]
            /\ body' = [body EXCEPT ![s] = <<>>]
            /\ NewSink(s)
            /\ mails' = [mails EXCEPT ![<<s, nmail[s] + 1>>] =
                             [mail |-> env.mail, rcpts |-> env.rcpts, given |-> <<>>]]
            /\ pc' = [pc EXCEPT ![s] = "data"]
    /\ UNCHANGED <<design, config, auth, acceptResult, outcome, lockVars, chanVars, calls>>

\* Sink::start_send: body.extend_from_slice(&item)
StartSend(s, item) ==
    /\ pc[s] = "data"
    /\ Len(body[s]) + Len(item) <= MaxBody
    /\ Len(chunks[s]) < MaxChunks
    /\ chunks' = [chunks EXCEPT ![s] = Append(@, item)]
    /\ sendResult' = [sendResult EXCEPT ![s] = start_send_result(s)]
    /\ IF start_send_result(s) = "Ready"
       THEN /\ body' = extend_from_slice(body, s, item)
            /\ capacity' = [capacity EXCEPT
                               ![s] = reserve(@, Len(body[s]), Len(item))]
            /\ mails' = [mails EXCEPT ![envelope[s].id].given = @ \o item]
       ELSE UNCHANGED <<body, capacity, mails>>
    /\ UNCHANGED <<design, config, auth, acceptResult, pc, nmail, envelope, outcome,
                   lockVars, chanVars, calls>>

\* Sink::poll_complete: lib.rs shrinks the buffer to its length, main.rs
\* does nothing
PollComplete(s) ==
    /\ pc[s] = "data"
    /\ capacity' = IF design = "lock"
                   THEN [capacity EXCEPT ![s] = Len(body[s])]
                   ELSE capacity
    /\ UNCHANGED <<design, config, mails, auth, acceptResult, pc, nmail, envelope, body, outcome,
                   lockVars, chanVars, calls, chunks, sendResult>>

\* MailGuard::accept: Accepted(request.rcpt)
Accepted(rcpt) == [kind |-> "Accepted", rcpt |-> rcpt]
Rejected == [kind |-> "Rejected"]
accept_allow_list(request) ==
    IF request.rcpt = "a@example.org" THEN Accepted(request.rcpt) ELSE Rejected
accept(request) == Accepted(request.rcpt)

Accept(request) ==
    /\ acceptResult' = [request |-> Some(request), result |-> Some(accept(request))]
    /\ UNCHANGED <<design, config, mails, auth, pc, nmail, envelope, body, outcome, lockVars,
                   chanVars, calls, bufVars>>

\* the entry of calls for mail id gets the status st
SetStatus(id, st) ==
    [i \in DOMAIN calls |->
        IF calls[i].mail = id THEN [calls[i] EXCEPT !.status = st] ELSE calls[i]]

\* serenity's Webhook::execute returns Ok(_) or Err(_)
ExecuteResults == {"Ok", "Err"}

\* ---- lib.rs: the lock-guarded WebhookSender ------------------------------
\* Mutex::lock blocks while another guard is alive
MutexFree_unguarded == TRUE
MutexFree == lockHolder = 0

\* MailToDiscord::handle returns nothing: an implementation that cannot
\* convert the body either writes a degraded message or panics
HandlerMayAbort(b) == ~from_utf8(b)

\* queue: match sink.send_messsage(..) { Ok(_) => QueuedWithId(id), Err(_) => Failed }
QueueResultOf_always_queued(r, id) == QueuedWithId(id)
QueueResultOf(r, id) == IF r = "Ok" THEN QueuedWithId(id) ELSE Failed

\* the MutexGuard is dropped when queue returns
GuardAfterReturn_leaked(s) == s
GuardAfterReturn(s) == 0

\* the MutexGuard of a panicking thread is dropped while it unwinds
GuardAfterPanic_held(s) == s
GuardAfterPanic(s) == 0

\* queue is called and reaches self.sink.lock()
Queue(s) ==
    /\ design = "lock"
    /\ pc[s] = "data"
    /\ pc' = [pc EXCEPT ![s] = "lock"]
    /\ UNCHANGED <<design, config, mails, auth, acceptResult, nmail, envelope, body,
                   outcome, lockVars, chanVars, calls, bufVars>>

\* queue, from self.sink.lock() to the call of webhook.execute: lock blocks
\* until the Mutex is free, then send_messsage(self.envelope, self.body); a
\* poisoned lock gives Failed
QueueLock(s) ==
    /\ design = "lock"
    /\ pc[s] = "lock"
    /\ MutexFree
    /\ IF poisoned
       THEN /\ outcome' = [outcome EXCEPT ![envelope[s].id] = Failed]
            /\ pc' = [pc EXCEPT ![s] = "idle"]
            /\ envelope' = [envelope EXCEPT ![s] = NoEnvelope]
            /\ body' = [body EXCEPT ![s] = <<>>]
            /\ NewSink(s)
            /\ UNCHANGED <<lockHolder, calls>>
       ELSE /\ lockHolder' = s
            /\ calls' = Append(calls, [mail |-> envelope[s].id,
                                       from |-> envelope[s].mail,
                                       to |-> envelope[s].rcpts,
                                       body |-> body[s],
                                       status |-> "running"])
            /\ pc' = [pc EXCEPT ![s] = "handle"]
            /\ UNCHANGED <<outcome, envelope, body, bufVars>>
    /\ UNCHANGED <<design, config, mails, auth, acceptResult, nmail, poisoned, chanVars>>

\* the closure of send_messsage: handler.handle(envelope, body, w); a panic
\* unwinds through queue, dropping the guard of a panicking thread
Handle(s, abort) ==
    /\ design = "lock"
    /\ pc[s] = "handle"
    /\ abort => HandlerMayAbort(body[s])
    /\ IF abort
       THEN /\ pc' = [pc EXCEPT ![s] = "panicked"]
            /\ poisoned' = TRUE
            /\ lockHolder' = GuardAfterPanic(s)
            /\ calls' = SetStatus(envelope[s].id, "Panicked")
       ELSE /\ pc' = [pc EXCEPT ![s] = "http"]
            /\ UNCHANGED <<poisoned, lockHolder, calls>>
    /\ UNCHANGED <<design, config, mails, auth, acceptResult, nmail, envelope, body, outcome, chanVars,
                   bufVars>>

\* webhook.execute returns r; queue maps it to the QueueResult and returns
ExecuteReturn(s, r) ==
    /\ design = "lock"
    /\ pc[s] = "http"
    /\ calls' = SetStatus(envelope[s].id, r)
    /\ outcome' = [outcome EXCEPT ![envelope[s].id] = QueueResultOf(r, envelope[s].id)]
    /\ lockHolder' = GuardAfterReturn(s)
    /\ pc' = [pc EXCEPT ![s] = "idle"]
    /\ envelope' = [envelope EXCEPT ![s] = NoEnvelope]
    /\ body' = [body EXCEPT ![s] = <<>>]
    /\ NewSink(s)
    /\ UNCHANGED <<design, config, mails, auth, acceptResult, nmail, poisoned, chanVars>>

\* ---- main.rs: the channel and the webhook thread -------------------------
Shutdown == [type |-> "Shutdown"]
\* (mail is not a field of the command: it names the mail the command was
\* made for)
SendMessage(id, from, recipients, b) ==
    [type |-> "SendMessage", mail |-> id, from |-> from, recipients |-> recipients,
     body |-> b]

\* mpsc::Sender::send fails once the Receiver has been dropped, which
\* happens when the closure of the webhook thread ends
ReceiverAlive == worker \in {"recv", "execute"}

\* receiver.iter() yields the commands in the order they were sent
NextCommand_newest == Len(sent) - rcvd
NextCommand == rcvd + 1

\* queue of main.rs: from_utf8, then sender.send(command)
QueueChannel(s) ==
    /\ design = "channel"
    /\ pc[s] = "data"
    /\ IF from_utf8(body[s]) /\ ReceiverAlive
       THEN /\ sent' = Append(sent, SendMessage(envelope[s].id,
                                                to_string(SenderPath(envelope[s].mail)),
                                                RecipientStrings(envelope[s].rcpts),
                                                body[s]))
            /\ outcome' = [outcome EXCEPT ![envelope[s].id] = QueuedWithId(envelope[s].id)]
       ELSE /\ outcome' = [outcome EXCEPT ![envelope[s].id] = Failed]
            /\ UNCHANGED sent
    /\ pc' = [pc EXCEPT ![s] = "idle"]
    /\ envelope' = [envelope EXCEPT ![s] = NoEnvelope]
    /\ body' = [body EXCEPT ![s] = <<>>]
    /\ NewSink(s)
    /\ UNCHANGED <<design, config, mails, auth, acceptResult, nmail, lockVars, rcvd, worker, nshutdown, calls>>

\* a holder of the Sender sends DiscordWebhookCommand::shutdown()
IssueShutdown_abort ==
    /\ design = "channel"
    /\ nshutdown < MaxShutdowns
    /\ nshutdown' = nshutdown + 1
    /\ sent' = IF ReceiverAlive THEN Append(sent, Shutdown) ELSE sent
    /\ worker' = IF ReceiverAlive THEN "returned" ELSE worker
    /\ UNCHANGED <<design, config, mails, auth, acceptResult, bufVars, pc, nmail, envelope,
                   body, outcome, lockVars, rcvd, calls>>

IssueShutdown ==
    /\ design = "channel"
    /\ nshutdown < MaxShutdowns
    /\ nshutdown' = nshutdown + 1
    /\ sent' = IF ReceiverAlive THEN Append(sent, Shutdown) ELSE sent
    /\ UNCHANGED <<design, config, mails, auth, acceptResult, bufVars, pc, nmail, envelope, body, outcome, lockVars, rcvd,
                   worker, calls>>

\* for command in receiver.iter(): SendMessage starts webhook.execute,
\* Shutdown breaks out of the loop
WorkerRecv ==
    /\ design = "channel"
    /\ worker = "recv"
    /\ rcvd < Len(sent)
    /\ LET command == sent[NextCommand]
       IN  /\ rcvd' = rcvd + 1
           /\ IF command.type = "SendMessage"
              THEN /\ worker' = "execute"
                   /\ calls' = Append(calls,
                          [mail |-> command.mail, status |-> "running"]
                          @@ EmbedFake(command.from, command.recipients, command.body))
              ELSE /\ worker' = "returned"
                   /\ UNCHANGED calls
    /\ UNCHANGED <<design, config, mails, auth, acceptResult, bufVars, pc, nmail, envelope, body, outcome, lockVars, sent,
                   nshutdown>>

\* webhook.execute(..).unwrap(): Err panics the webhook thread
AfterUnwrap_ignore_error(r) == "recv"
AfterUnwrap(r) == IF r = "Ok" THEN "recv" ELSE "panicked"

WorkerExecuteReturn(r) ==
    /\ design = "channel"
    /\ worker = "execute"
    /\ calls' = [calls EXCEPT ![Len(calls)].status = r]
    /\ worker' = AfterUnwrap(r)
    /\ UNCHANGED <<design, config, mails, auth, acceptResult, bufVars, pc, nmail, envelope, body, outcome, lockVars, sent,
                   rcvd, nshutdown>>

Next ==
    \/ \E s \in Sessions : Mail(s, RunningEnvelope(s))
    \/ \E s \in Sessions, x \in Bytes : StartSend(s, <<x>>)
    \/ \E s \in Sessions : Queue(s)
    \/ \E s \in Sessions : QueueLock(s)
    \/ \E s \in Sessions, abort \in BOOLEAN : Handle(s, abort)
    \/ \E s \in Sessions, r \in ExecuteResults : ExecuteReturn(s, r)
    \/ \E s \in Sessions : QueueChannel(s)
    \/ IssueShutdown
    \/ WorkerRecv
    \/ \E r \in ExecuteResults : WorkerExecuteReturn(r)

Spec == Init /\ [][Next]_vars

\* ---- the sessions in full: recipients, items of any size, poll_complete ---
ChunkSamples == {<<>>, <<72>>, <<195>>, <<72, 195>>}
RecipientSamples == {"a@example.org", "b@example.org"}

SessionNext ==
    \/ \E s \in Sessions :
          Opened(Sessions) < MaxSessionMails /\ Mail(s, RunningEnvelope(s))
    \/ \E s \in Sessions, item \in ChunkSamples : StartSend(s, item)
    \/ \E s \in Sessions : PollComplete(s)
    \/ \E r \in RecipientSamples : Accept([rcpt |-> r])
    \/ \E s \in Sessions : Queue(s)
    \/ \E s \in Sessions : QueueLock(s)
    \/ \E s \in Sessions, abort \in BOOLEAN : Handle(s, abort)
    \/ \E s \in Sessions, r \in ExecuteResults : ExecuteReturn(s, r)
    \/ \E s \in Sessions : QueueChannel(s)
    \/ IssueShutdown
    \/ WorkerRecv
    \/ \E r \in ExecuteResults : WorkerExecuteReturn(r)

SpecSession == Init /\ [][SessionNext]_vars

\* ---- the sessions with envelopes of every kind ---------------------------
\* a sender named by MAIL, the null sender named by SEND, no sender at all;
\* one recipient, or two in either order
NullSender == Some(SmtpMail("Send", <<>>))
EnvelopeSamples ==
    {[mail |-> Some(SmtpMail("Mail", Alice)), rcpts |-> <<Bob, Alice>>],
     [mail |-> NullSender, rcpts |-> <<Alice, Bob>>],
     [mail |-> None, rcpts |-> <<Alice>>]}

\* 'H', and a character of two bytes
TextSamples == {<<72>>, <<195, 168>>}

EnvelopeNext ==
    \/ \E s \in Sessions, env \in EnvelopeSamples :
          Opened(Sessions) < MaxEnvelopeMails /\ Mail(s, env)
    \/ \E s \in Sessions, item \in TextSamples : StartSend(s, item)
    \/ \E s \in Sessions : Queue(s)
    \/ \E s \in Sessions : QueueLock(s)
    \/ \E s \in Sessions, abort \in BOOLEAN : Handle(s, abort)
    \/ \E s \in Sessions, r \in ExecuteResults : ExecuteReturn(s, r)
    \/ \E s \in Sessions : QueueChannel(s)
    \/ IssueShutdown
    \/ WorkerRecv
    \/ \E r \in ExecuteResults : WorkerExecuteReturn(r)

SpecEnvelope == Init /\ [][EnvelopeNext]_vars

\* ---- lib.rs alone, with the scheduling its liveness rests on --------------
LockInit ==
    /\ design = "lock"
    /\ config = RunningConfig
    /\ auth = get_auth(config)
    /\ MailerInit

LockNext ==
    \/ \E s \in Sessions :
          Opened(Sessions) < MaxFairMails /\ Mail(s, RunningEnvelope(s))
    \/ \E s \in Sessions, x \in Bytes : StartSend(s, <<x>>)
    \/ \E s \in Sessions : Queue(s)
    \/ \E s \in Sessions : QueueLock(s)
    \/ \E s \in Sessions, abort \in BOOLEAN : Handle(s, abort)
    \/ \E s \in Sessions, r \in ExecuteResults : ExecuteReturn(s, r)

\* a thread that waits in lock() gets the Mutex if it is free again and
\* again; a thread inside send_messsage keeps running, and webhook.execute
\* comes back. Nothing makes a session open a mail, send data or call queue
Fairness ==
    \A s \in Sessions :
        /\ SF_vars(QueueLock(s))
        /\ WF_vars(\E abort \in BOOLEAN : Handle(s, abort))
        /\ WF_vars(\E r \in ExecuteResults : ExecuteReturn(s, r))

SpecFair == LockInit /\ [][LockNext]_vars /\ Fairness

\* ---- startup: resolving the credentials ----------------------------------
\* before get_auth is called, for any configuration that deserializes
AuthInit ==
    /\ design = "lock"
    /\ config \in ConfigSamples
    /\ auth = Unresolved
    /\ MailerInit

\* config.discord.get_auth()
GetAuth ==
    /\ auth = Unresolved
    /\ auth' = get_auth(config)
    /\ UNCHANGED <<design, config, mails, acceptResult, bufVars, pc, nmail, envelope, body, outcome, lockVars,
                   chanVars, calls>>

AuthNext == GetAuth

SpecAuth == AuthInit /\ [][AuthNext]_vars

TypeOK ==
    /\ design \in Designs
    /\ pc \in [Sessions -> {"idle", "data", "lock", "handle", "http", "panicked"}]
    /\ nmail \in [Sessions -> 0..MaxMails]
    /\ lockHolder \in Sessions \cup {0}
    /\ poisoned \in BOOLEAN
    /\ rcvd \in 0..Len(sent)
    /\ worker \in {"recv", "execute", "returned", "panicked"}
    /\ nshutdown \in 0..MaxShutdowns

\* ---- properties ----------------------------------------------------------
Running == {i \in DOMAIN calls : calls[i].status = "running"}
CallsOf(m) == {i \in DOMAIN calls : calls[i].mail = m}
HasCall(m, st) == \E i \in CallsOf(m) : calls[i].status = st
Returned(m) == outcome[m] # NoResult
ShutdownSent(i) == \E j \in 1..(i - 1) : sent[j] = Shutdown

\* C1: in both programs at most one webhook.execute call is in progress at
\* any instant, whatever the interleaving of the sessions
C1_OneCallInFlight == Cardinality(Running) <= 1

\* a session waits for the lock while another session's call is in progress
C1_Witness ==
    /\ design = "lock"
    /\ \E s, t \in Sessions : s # t /\ pc[s] = "http" /\ pc[t] = "lock"
    /\ Cardinality(Running) = 1

\* C2: the calls made for the mails of one session come in the order in
\* which that session submitted them (mail <<s, k>> is the k-th of session s)
C2_SessionOrder ==
    \A i, j \in DOMAIN calls :
        (i < j /\ calls[i].mail[1] = calls[j].mail[1])
            => calls[i].mail[2] < calls[j].mail[2]

\* two mails of one session delivered around a mail of another session, by
\* the webhook thread
C2_Witness ==
    /\ design = "channel"
    /\ \E i, j, k \in DOMAIN calls :
          /\ i < j /\ j < k
          /\ calls[i].mail[1] = calls[k].mail[1]
          /\ calls[j].mail[1] # calls[i].mail[1]

\* C3: in lib.rs queue returns QueuedWithId(id) exactly when the one call
\* made for the mail returned Ok and Failed otherwise, and no mail gets a
\* second call
C3_LockOutcome ==
    design = "lock" =>
        \A m \in MailIds :
            /\ Cardinality(CallsOf(m)) <= 1
            /\ outcome[m] \in {NoResult, Failed, QueuedWithId(m)}
            /\ outcome[m] = QueuedWithId(m) <=> HasCall(m, "Ok")
            /\ HasCall(m, "Err") => outcome[m] = Failed

\* one mail was queued after Ok and another failed after Err
C3_Witness ==
    /\ design = "lock"
    /\ \E m, n \in MailIds :
          /\ outcome[m] = QueuedWithId(m) /\ HasCall(m, "Ok")
          /\ outcome[n] = Failed /\ HasCall(n, "Err")

\* C4: in main.rs queue returns QueuedWithId only if the call for that mail
\* returned Ok, and Failed if that call returned Err
C4_ChannelOutcome ==
    design = "channel" =>
        \A m \in MailIds :
            /\ outcome[m] = QueuedWithId(m) => HasCall(m, "Ok")
            /\ HasCall(m, "Err") => outcome[m] = Failed

\* C5: in main.rs a failed call does not end the webhook thread
C5_WorkerSurvivesFailure ==
    design = "channel" =>
        ((\E i \in DOMAIN calls : calls[i].status = "Err") => worker # "panicked")

\* C6: in lib.rs a call returning Err gives Failed for that mail alone and
\* frees the lock without poisoning it, and a later mail whose call returns
\* Ok is queued
C6_ErrReturn ==
    \A s \in Sessions :
        LET m == envelope[s].id
        IN  (design = "lock" /\ pc[s] = "http" /\ pc'[s] = "idle"
               /\ \E i \in DOMAIN calls' :
                     calls'[i].mail = m /\ calls'[i].status = "Err")
            => /\ outcome'[m] = Failed
               /\ \A n \in MailIds \ {m} : outcome'[n] = outcome[n]
               /\ lockHolder' = 0
               /\ poisoned' = poisoned

C6_AfterErr ==
    design = "lock" =>
        /\ poisoned => \E i \in DOMAIN calls : calls[i].status = "Panicked"
        /\ \A i, j \in DOMAIN calls :
              (i < j /\ calls[i].status = "Err" /\ calls[j].status = "Ok")
                  => outcome[calls[j].mail] = QueuedWithId(calls[j].mail)

C6_LockErrorIsolated == [][C6_ErrReturn]_vars /\ []C6_AfterErr

\* a mail queued by a call that came after a failed call
C6_Witness ==
    /\ design = "lock"
    /\ lockHolder = 0
    /\ \E i, j \in DOMAIN calls :
          /\ i < j /\ calls[i].status = "Err" /\ calls[j].status = "Ok"
          /\ outcome[calls[i].mail] = Failed
          /\ outcome[calls[j].mail] = QueuedWithId(calls[j].mail)

\* C7: in lib.rs, once a handler has aborted, every submit that returns has
\* still reached the transport
C7_AbortConfined ==
    (design = "lock" /\ \E i \in DOMAIN calls : calls[i].status = "Panicked")
        => \A m \in MailIds : Returned(m) => CallsOf(m) # {}

\* a lead byte of a two-byte sequence that no continuation byte follows
Malformed(b) ==
    \E i \in DOMAIN b :
        /\ b[i] >= 194 /\ b[i] <= 223
        /\ (i = Len(b) \/ b[i + 1] < 128 \/ b[i + 1] > 191)

\* C8: in main.rs submitting a body that is not UTF-8 returns Failed and
\* leaves the channel, the webhook thread, the calls and every other mail's
\* outcome as they were
C8_MalformedSubmit ==
    \A s \in Sessions :
        (design = "channel" /\ pc[s] = "data" /\ pc'[s] = "idle"
           /\ Malformed(body[s]))
        => /\ outcome'[envelope[s].id] = Failed
           /\ \A m \in MailIds \ {envelope[s].id} : outcome'[m] = outcome[m]
           /\ UNCHANGED <<sent, rcvd, worker, nshutdown, calls>>

C8_NoMalformedCommand ==
    design = "channel" =>
        /\ \A i \in DOMAIN sent :
              sent[i].type = "SendMessage" => ~Malformed(sent[i].body)
        /\ \A i \in DOMAIN calls : ~Malformed(calls[i].body)

C8_MalformedBodyFails == [][C8_MalformedSubmit]_vars /\ []C8_NoMalformedCommand

\* a malformed mail failed while the webhook thread runs, and a later mail
\* of the same session was queued
C8_Witness ==
    /\ design = "channel"
    /\ worker \in {"recv", "execute"}
    /\ \E s \in Sessions :
          /\ outcome[<<s, 1>>] = Failed
          /\ \A i \in DOMAIN sent :
                sent[i].type = "SendMessage" => sent[i].mail # <<s, 1>>
          /\ outcome[<<s, 2>>] = QueuedWithId(<<s, 2>>)

\* C9: no submit made after Shutdown was issued returns QueuedWithId for a
\* mail that is never passed to the transport
C9_NoSilentDrop ==
    (design = "channel" /\ worker = "returned")
        => \A i \in DOMAIN sent :
              (sent[i].type = "SendMessage" /\ ShutdownSent(i)
                 /\ outcome[sent[i].mail] = QueuedWithId(sent[i].mail))
              => CallsOf(sent[i].mail) # {}

\* C10: when the webhook thread has ended after a Shutdown was sent, it has
\* made the call for every SendMessage sent before the Shutdown and for none
\* sent after it
C10_DrainBeforeShutdown ==
    (design = "channel" /\ worker \in {"returned", "panicked"}
       /\ \E j \in DOMAIN sent : sent[j] = Shutdown)
        => \A i \in DOMAIN sent :
              sent[i].type = "SendMessage"
                  => (CallsOf(sent[i].mail) # {} <=> ~ShutdownSent(i))

\* C11: in a run of main.rs without Shutdown every SendMessage accepted by
\* the channel is taken by the webhook thread once and gets one call: none
\* is executed twice, and none is left behind by a thread that has ended
C11_ConsumedExactlyOnce ==
    (design = "channel" /\ nshutdown = 0)
        => /\ \A i \in DOMAIN sent :
                 /\ Cardinality(CallsOf(sent[i].mail)) <= 1
                 /\ i <= rcvd <=> CallsOf(sent[i].mail) # {}
           /\ ~ReceiverAlive => rcvd = Len(sent)

\* ---- credentials ---------------------------------------------------------
HasUrl == config.webhook_url.some
HasId == config.webhook_id.some
HasToken == config.webhook_token.some
UrlOnly == HasUrl /\ ~HasId /\ ~HasToken
IsNumeric(t) == t # <<>> /\ \A i \in DOMAIN t : t[i] \in DOMAIN DigitValue

\* the path segments of the configured URL when it has a hierarchical form
UrlSegments == Split(Tail(UrlParse(config.webhook_url.val).val.path), <<>>)
UrlForm == config.webhook_url.val.form

\* C12: get_auth follows the decision table over the presence of url, id
\* and token, and only (id, token) and (url alone) can give an identity
C12_DecisionTable ==
    auth # Unresolved =>
        /\ (~HasUrl /\ ~HasId /\ ~HasToken) => auth = Err("NeitherUrlNorPartsSpecified")
        /\ (~HasUrl /\ ~HasId /\ HasToken) => auth = Err("ConfigMissingWebhookId")
        /\ (~HasUrl /\ HasId /\ ~HasToken) => auth = Err("ConfigMissingWebhookToken")
        /\ (~HasUrl /\ HasId /\ HasToken)
              => auth = Ok([id |-> config.webhook_id.val,
                            token |-> config.webhook_token.val])
        /\ UrlOnly => auth = UrlError(from_url(config.webhook_url.val))
        /\ (HasUrl /\ (HasId \/ HasToken)) => auth = Err("InvalidParamCombination")
        /\ auth.kind = "Ok" => ((~HasUrl /\ HasId /\ HasToken) \/ UrlOnly)

\* a URL that would parse, given together with an id, was rejected
C12_Witness ==
    /\ auth = Err("InvalidParamCombination")
    /\ HasUrl /\ HasId /\ ~HasToken
    /\ from_url(config.webhook_url.val).kind = "Ok"

\* C13: from_url succeeds exactly for the paths made of the four segments
\* api, webhooks, a numeric id and a token, and returns that id and token
C13_ExactlyFourSegments ==
    (auth # Unresolved /\ UrlOnly /\ UrlForm = "hierarchical")
        => /\ auth.kind = "Ok"
                <=> /\ Len(UrlSegments) = 4
                    /\ UrlSegments[1] = Api
                    /\ UrlSegments[2] = Webhooks
                    /\ IsNumeric(UrlSegments[3])
           /\ auth.kind = "Ok"
                => auth.val = [id |-> DigitsValue(UrlSegments[3], 0),
                               token |-> UrlSegments[4]]

\* the error of the first element of the URL that deviates
FirstDeviation ==
    LET n == Len(UrlSegments)
    IN  IF UrlForm = "relative" THEN "UrlParseError"
        ELSE IF UrlForm = "opaque" THEN "UrlMissingPath"
        ELSE IF n < 1 \/ UrlSegments[1] # Api THEN "UrlPathMissingApi"
        ELSE IF n < 2 \/ UrlSegments[2] # Webhooks THEN "UrlPathMissingWebhooks"
        ELSE IF n < 3 THEN "UrlPathMissingId"
        ELSE IF ~IsNumeric(UrlSegments[3]) THEN "IdParseError"
        ELSE IF n < 4 THEN "UrlPathMissingToken"
        ELSE "none"

\* C14: a URL that from_url rejects is rejected with the error of the first
\* deviating element, in the order unparsable, no path, api, webhooks,
\* missing id, non-numeric id, missing token
C14_FirstDeviationError ==
    (auth # Unresolved /\ UrlOnly /\ auth.kind = "Err")
        => auth.err = <<"UrlError", FirstDeviation>>

\* a path /api/webhooks/ab: the id is not numeric and the token is missing
C14_Witness ==
    /\ UrlOnly /\ UrlForm = "hierarchical"
    /\ UrlSegments = <<Api, Webhooks, <<"a", "b">>>>
    /\ auth = Err(<<"UrlError", "IdParseError">>)

\* C15: no identity that get_auth returns has an empty token
C15_TokenNonEmpty == auth.kind = "Ok" => auth.val.token # <<>>

\* ---- the sink, accept, and Shutdown against a running call ---------------
RECURSIVE Concat(_)
Concat(cs) == IF cs = <<>> THEN <<>> ELSE Head(cs) \o Concat(Tail(cs))

\* C16: the body of a sink is the concatenation of the items it was given,
\* in order, also after poll_complete, and that body is what queue hands to
\* the call (lib.rs) or puts into the command (main.rs)
C16_BodyIsConcat ==
    \A s \in Sessions :
        /\ pc[s] \in {"data", "lock", "handle", "http"} => body[s] = Concat(chunks[s])
        /\ pc[s] \in {"handle", "http"}
              => \A i \in CallsOf(envelope[s].id) : calls[i].body = Concat(chunks[s])

C16_HandOff ==
    \A s \in Sessions :
        (design = "channel" /\ pc[s] = "data" /\ pc'[s] = "idle"
           /\ Len(sent') = Len(sent) + 1)
        => /\ sent'[Len(sent')].mail = envelope[s].id
           /\ sent'[Len(sent')].body = Concat(chunks[s])

C16_Accumulate == []C16_BodyIsConcat /\ [][C16_HandOff]_vars

\* the call of lib.rs got the two bytes given as three items, one of them
\* empty, after the buffer was shrunk
C16_Witness ==
    \E s \in Sessions :
        /\ pc[s] = "http"
        /\ Len(chunks[s]) = 3 /\ chunks[s][2] = <<>> /\ chunks[s][1] # <<>>
        /\ capacity[s] = 2
        /\ \E i \in CallsOf(envelope[s].id) : calls[i].body = <<72, 195>>

\* C17: start_send returns Ready for every item, and is never held up by
\* the lock, by the webhook thread or by the size of the buffer
C17_AlwaysReady ==
    \A s \in Sessions :
        /\ sendResult[s] \in {"None", "Ready"}
        /\ chunks[s] # <<>> => sendResult[s] = "Ready"
        /\ \A item \in ChunkSamples :
              (pc[s] = "data" /\ Len(body[s]) + Len(item) <= MaxBody
                 /\ Len(chunks[s]) < MaxChunks)
              => ENABLED StartSend(s, item)

\* a sink took items while another session's call holds the lock
C17_Witness ==
    /\ design = "lock"
    /\ \E s, t \in Sessions :
          /\ s # t /\ pc[t] = "http" /\ lockHolder = t
          /\ pc[s] = "data" /\ sendResult[s] = "Ready" /\ Len(chunks[s]) = 2

\* C18: start_send on the sink of one session changes the body of that sink
\* only: the other sinks, every envelope and the dispatch state stay as they are
C18_AppendFrame ==
    \A s \in Sessions :
        (pc[s] = "data" /\ Len(chunks'[s]) = Len(chunks[s]) + 1)
        => /\ \A t \in Sessions \ {s} :
                 body'[t] = body[t] /\ chunks'[t] = chunks[t]
           /\ UNCHANGED <<envelope, outcome, lockHolder, poisoned, sent, rcvd,
                          worker, nshutdown, calls, auth, config>>

C18_OwnBuffer == [][C18_AppendFrame]_vars

\* two sinks filled side by side with different bodies
C18_Witness ==
    /\ pc[1] = "data" /\ pc[2] = "data"
    /\ body[1] = <<72, 195>> /\ body[2] = <<195>>

\* C19: accept returns Accepted with the recipient of the request, never
\* Rejected, and an accept changes nothing else
C19_Accepted ==
    acceptResult # NoAccept
        => acceptResult.result.val = Accepted(acceptResult.request.val.rcpt)

C19_AcceptFrame ==
    acceptResult' # acceptResult
        => UNCHANGED <<design, pc, nmail, envelope, body, outcome, lockHolder,
                       poisoned, sent, rcvd, worker, nshutdown, calls, config,
                       auth, chunks, capacity, sendResult>>

C19_AcceptPure == []C19_Accepted /\ [][C19_AcceptFrame]_vars

\* the second recipient was accepted while a sink is being filled and a call
\* is in progress
C19_Witness ==
    /\ acceptResult.result = Some(Accepted("b@example.org"))
    /\ \E s \in Sessions : pc[s] = "data" /\ body[s] # <<>>
    /\ Running # {}

\* C20: a call in progress when Shutdown is sent runs to its end: sending
\* Shutdown leaves the webhook thread and its call alone, the thread leaves
\* a call only with the result of the call, and it has no call in progress
\* when it returns
C20_ShutdownStep ==
    /\ nshutdown' # nshutdown => UNCHANGED <<worker, calls, rcvd>>
    /\ (worker = "execute" /\ worker' # "execute")
          => /\ Len(calls') = Len(calls)
             /\ calls'[Len(calls')].status \in ExecuteResults

C20_NoCallLeft == (design = "channel" /\ worker = "returned") => Running = {}

C20_ShutdownWaits == []C20_NoCallLeft /\ [][C20_ShutdownStep]_vars

\* Shutdown is the next command while the call for the command before it
\* is in progress
C20_Witness ==
    /\ design = "channel"
    /\ worker = "execute"
    /\ Len(sent) = rcvd + 1
    /\ sent[Len(sent)] = Shutdown

\* ---- the envelope and the body of a call --------------------------------
\* the address a string "<address>" names
Unbracket(t) ==
    IF Len(t) >= 2 /\ t[1] = "<" /\ t[Len(t)] = ">"
    THEN Some(SubSeq(t, 2, Len(t) - 1)) ELSE None

\* the lines of a text
RECURSIVE Lines(_, _)
Lines(t, cur) ==
    IF t = <<>> THEN <<cur>>
    ELSE IF Head(t) = "\n" THEN <<cur>> \o Lines(Tail(t), <<>>)
    ELSE Lines(Tail(t), Append(cur, Head(t)))

\* the sender, the recipients and the body that c carries are those of the
\* mail m: lib.rs passes the envelope as it is, main.rs writes the sender as
\* "<address>" and the recipients as lines of "<address>"
Carries(c, m) ==
    /\ c.body = mails[m].given
    /\ IF design = "lock"
       THEN c.from = mails[m].mail /\ c.to = mails[m].rcpts
       ELSE /\ mails[m].mail.some
            /\ Unbracket(c.from) = Some(mails[m].mail.val.path)
            /\ LET lines == Lines(c.to, <<>>)
               IN  [k \in DOMAIN lines |-> Unbracket(lines[k])]
                       = [k \in DOMAIN mails[m].rcpts |-> Some(mails[m].rcpts[k])]

\* C21: every call carries the sender, the recipients in their order and
\* the body of the one mail it was made for: the envelope that mail was
\* opened with and the bytes its own sink was given, whatever the other
\* sessions open, append and submit meanwhile
C21_CallCarriesOneMail ==
    \A i \in DOMAIN calls : Carries(calls[i], calls[i].mail)

\* two sessions submitted mails with different envelopes and bodies before
\* the webhook thread made the call for either
C21_Witness ==
    /\ design = "channel"
    /\ Len(calls) = 2 /\ Len(sent) = 2
    /\ calls[1].mail[1] # calls[2].mail[1]
    /\ calls[1].body = <<72>> /\ calls[2].body = <<195, 168>>
    /\ mails[calls[1].mail].rcpts = <<Alice, Bob>>
    /\ mails[calls[1].mail].mail = NullSender
    /\ mails[calls[2].mail].rcpts = <<Bob, Alice>>
    /\ outcome[calls[2].mail] # NoResult
    /\ \E s \in Sessions : pc[s] = "panicked"

\* ---- lib.rs: every submit returns ---------------------------------------
InQueue(s) == pc[s] \in {"lock", "handle", "http"}

\* the Mutex is held only by a session inside send_messsage, so a session
\* in lock() either can take the Mutex or waits for a call in progress
C22_NoDeadlock ==
    /\ lockHolder # 0 => pc[lockHolder] \in {"handle", "http"}
    /\ \A s \in Sessions :
          (pc[s] = "lock" /\ lockHolder = 0) => ENABLED QueueLock(s)

\* a mail that is no longer the one of its session's sink has an outcome,
\* and a session ends without returning only with the handler that aborted
\* inside its own call
C22_Returned ==
    \A s \in Sessions :
        /\ \A k \in 1..nmail[s] :
              (envelope[s].id # <<s, k>>)
                  => outcome[<<s, k>>] \in {Failed, QueuedWithId(<<s, k>>)}
        /\ pc[s] = "panicked" => HasCall(envelope[s].id, "Panicked")

\* a session in queue leaves it: it returns, or its own handler aborted
C22_Leaves ==
    \A s \in Sessions : InQueue(s) ~> (pc[s] \in {"idle", "panicked"})

\* C22: in lib.rs, with a fair lock and calls that come back, every queue
\* that was called returns QueuedWithId or Failed unless the handler aborts
\* inside its own call, and the Mutex is never left held, whatever a call
\* returned and also after a handler has aborted
C22_EverySubmitReturns == []C22_NoDeadlock /\ []C22_Returned /\ C22_Leaves

\* a session waits in lock() while the call of the other session is in
\* progress
C22_Witness ==
    \E s, t \in Sessions :
        /\ pc[t] = "lock" /\ body[t] # <<>>
        /\ lockHolder = s /\ pc[s] = "http"
====
